---- MODULE Spec2Model ----
(***************************************************************************)
(* Model of github.com/qntx/param: the tri-state container in its three    *)
(* implementations, Opt[T] (map[bool]T, src/option.go), Nullable[T]        *)
(* (map[bool]T, src/null.go) and Null[T] (a struct of value and state,     *)
(* src/nullable.go), embedded as the fields of a JSON payload struct,      *)
(* together with the part of encoding/json that the container plugs into   *)
(* (Marshaler / Unmarshaler, the omitempty rule).                          *)
(*                                                                         *)
(* Byte slices are sequences of one-character strings.  Go values of the   *)
(* payload type T are records (see GoInt .. GoNaN).                        *)
(***************************************************************************)
EXTENDS Integers, Sequences, FiniteSets, TLC

VARIABLES
    impl,   \* the container type the struct's fields are declared with
    typ,    \* the payload type T the containers are instantiated with
    p,      \* the payload struct: field name -> container
    dec,    \* the json.Unmarshal(input, &p) call in progress, if any
    ret,    \* the last call made and what it returned
    aliased \* whether the two fields' containers reference one map object

vars == <<impl, typ, p, dec, ret, aliased>>

(***************************************************************************)
(* Bounds of the model.                                                    *)
(***************************************************************************)
MaxInt == 1       \* numeric payloads range over 0..MaxInt
MaxStrLen == 1    \* string payloads are the strings over {a} up to this length

(***************************************************************************)
(* Go values of the payload types int, float64, string and *int, and of    *)
(* the further types src/field.go has a constructor for.                   *)
(***************************************************************************)
PayloadTypes == {"int", "float64", "string", "*int"}

\* The payload types of String, Int, Int64, Bool, Float, Float32 and Time.
HelperTypes == {"string", "int", "int64", "bool", "float64", "float32", "time.Time"}

GoInt(n) == [kind |-> "int", n |-> n, s |-> <<>>, isNil |-> FALSE, nan |-> FALSE]
GoFloat(n) == [kind |-> "float64", n |-> n, s |-> <<>>, isNil |-> FALSE, nan |-> FALSE]
GoNaN == [kind |-> "float64", n |-> 0, s |-> <<>>, isNil |-> FALSE, nan |-> TRUE]
GoString(s) == [kind |-> "string", n |-> 0, s |-> s, isNil |-> FALSE, nan |-> FALSE]
GoPtr(n) == [kind |-> "*int", n |-> n, s |-> <<>>, isNil |-> FALSE, nan |-> FALSE]
GoNilPtr == [kind |-> "*int", n |-> 0, s |-> <<>>, isNil |-> TRUE, nan |-> FALSE]
GoInt64(n) == [kind |-> "int64", n |-> n, s |-> <<>>, isNil |-> FALSE, nan |-> FALSE]
\* false is 0 and true is 1.
GoBool(b) == [kind |-> "bool", n |-> IF b THEN 1 ELSE 0, s |-> <<>>, isNil |-> FALSE, nan |-> FALSE]
GoFloat32(n) == [kind |-> "float32", n |-> n, s |-> <<>>, isNil |-> FALSE, nan |-> FALSE]
GoNaN32 == [kind |-> "float32", n |-> 0, s |-> <<>>, isNil |-> FALSE, nan |-> TRUE]
\* The instant n ticks after the zero time.Time.
GoTime(n) == [kind |-> "time.Time", n |-> n, s |-> <<>>, isNil |-> FALSE, nan |-> FALSE]

RECURSIVE StringsUpTo(_)
StringsUpTo(k) ==
    IF k = 0 THEN {<<>>}
    ELSE StringsUpTo(k - 1) \cup {Append(s, "a") : s \in StringsUpTo(k - 1)}

GoValues(T) ==
    CASE T = "int" -> {GoInt(n) : n \in 0..MaxInt}
      [] T = "float64" -> {GoFloat(n) : n \in 0..MaxInt} \cup {GoNaN}
      [] T = "string" -> {GoString(s) : s \in StringsUpTo(MaxStrLen)}
      [] T = "*int" -> {GoPtr(n) : n \in 0..MaxInt} \cup {GoNilPtr}
      [] T = "int64" -> {GoInt64(n) : n \in 0..MaxInt}
      [] T = "bool" -> {GoBool(b) : b \in BOOLEAN}
      [] T = "float32" -> {GoFloat32(n) : n \in 0..MaxInt} \cup {GoNaN32}
      [] T = "time.Time" -> {GoTime(n) : n \in 0..MaxInt}

\* *new(T), var empty T, var v T: the zero value of T.
ZeroValue(T) ==
    CASE T = "int" -> GoInt(0)
      [] T = "float64" -> GoFloat(0)
      [] T = "string" -> GoString(<<>>)
      [] T = "*int" -> GoNilPtr
      [] T = "int64" -> GoInt64(0)
      [] T = "bool" -> GoBool(FALSE)
      [] T = "float32" -> GoFloat32(0)
      [] T = "time.Time" -> GoTime(0)

(***************************************************************************)
(* Bytes.                                                                  *)
(***************************************************************************)
QUOTE == "\""
NullBytes == <<"n", "u", "l", "l">>
DigitChars == <<"0", "1", "2", "3", "4", "5", "6", "7", "8", "9">>

IsDigit(c) == \E i \in 1..10 : DigitChars[i] = c
DigitVal(c) == CHOOSE i \in 0..9 : DigitChars[i + 1] = c

RECURSIVE Itoa(_)
Itoa(n) ==
    IF n < 10 THEN <<DigitChars[n + 1]>>
    ELSE Append(Itoa(n \div 10), DigitChars[(n % 10) + 1])

RECURSIVE Atoi(_)
Atoi(b) ==
    IF Len(b) = 0 THEN 0
    ELSE Atoi(SubSeq(b, 1, Len(b) - 1)) * 10 + DigitVal(b[Len(b)])

(***************************************************************************)
(* encoding/json on a single value, as the container calls it.  Both       *)
(* return a record with err = "" for a nil error.                          *)
(***************************************************************************)
IsSpace(c) == c \in {" ", "\t", "\n", "\r"}

RECURSIVE TrimLeft(_)
TrimLeft(b) ==
    IF Len(b) > 0 /\ IsSpace(b[1]) THEN TrimLeft(Tail(b)) ELSE b

RECURSIVE TrimRight(_)
TrimRight(b) ==
    IF Len(b) > 0 /\ IsSpace(b[Len(b)]) THEN TrimRight(SubSeq(b, 1, Len(b) - 1)) ELSE b

TrimSpace(b) == TrimRight(TrimLeft(b))

IsNumberLit(b) ==
    /\ Len(b) >= 1
    /\ \A i \in 1..Len(b) : IsDigit(b[i])
    /\ Len(b) > 1 => b[1] # "0"

IsStringLit(b) ==
    /\ Len(b) >= 2
    /\ b[1] = QUOTE
    /\ b[Len(b)] = QUOTE
    /\ \A i \in 2..(Len(b) - 1) : b[i] \notin {QUOTE, "\\"}

\* The scanner's verdict on a whole input (checkValid): one JSON value,
\* surrounded by optional white space.
checkValid(data) ==
    LET b == TrimSpace(data)
    IN b = NullBytes \/ IsNumberLit(b) \/ IsStringLit(b)

\* json.Marshal(v) for a payload value v.
json_Marshal(v) ==
    CASE v.kind = "int" -> [bytes |-> Itoa(v.n), err |-> ""]
      [] v.kind = "float64" ->
            IF v.nan THEN [bytes |-> <<>>, err |-> "json: unsupported value: NaN"]
            ELSE [bytes |-> Itoa(v.n), err |-> ""]
      [] v.kind = "string" -> [bytes |-> <<QUOTE>> \o v.s \o <<QUOTE>>, err |-> ""]
      [] v.kind = "*int" ->
            IF v.isNil THEN [bytes |-> NullBytes, err |-> ""]
            ELSE [bytes |-> Itoa(v.n), err |-> ""]

\* var v T; err := json.Unmarshal(data, &v): the value left in v, and err.
json_Unmarshal(T, data) ==
    LET b == TrimSpace(data)
        zero == ZeroValue(T)
        mismatch == [v |-> zero, err |-> "json: cannot unmarshal into Go value of type " \o T]
    IN IF ~checkValid(data) THEN [v |-> zero, err |-> "json: syntax error"]
       ELSE IF b = NullBytes THEN [v |-> zero, err |-> ""]
       ELSE IF IsNumberLit(b) THEN
            CASE T = "int" -> [v |-> GoInt(Atoi(b)), err |-> ""]
              [] T = "float64" -> [v |-> GoFloat(Atoi(b)), err |-> ""]
              [] T = "*int" -> [v |-> GoPtr(Atoi(b)), err |-> ""]
              [] OTHER -> mismatch
       ELSE IF T = "string" THEN
            [v |-> GoString(SubSeq(b, 2, Len(b) - 1)), err |-> ""]
       ELSE mismatch

(***************************************************************************)
(* Go maps of type map[bool]T.  A nil map and an empty map both have       *)
(* length 0 and read as the zero value at every key.                       *)
(***************************************************************************)
NoKeys == [k \in {} |-> k]
NilMap == [isNil |-> TRUE, kv |-> NoKeys]
EmptyMap == [isNil |-> FALSE, kv |-> NoKeys]
MapLit(k, v) == [isNil |-> FALSE, kv |-> [x \in {k} |-> v]]
MapHas(t, k) == k \in DOMAIN t.kv
MapIndex(T, t, k) == IF MapHas(t, k) THEN t.kv[k] ELSE ZeroValue(T)
MapLen(t) == Cardinality(DOMAIN t.kv)

\* A call that panicked leaves, in place of its result, the panic's message.
Panicked(x) == "panic" \in DOMAIN x

(***************************************************************************)
(* Opt[T] (src/option.go).  A method with a pointer receiver is modelled   *)
(* by the map it leaves in *t.                                             *)
(***************************************************************************)
\* Zero that returns the map Null returns.
Zero_NullKey(T) == MapLit(FALSE, ZeroValue(T))

Zero(T) == EmptyMap

\* From that stores the value under the null key.
From_NullKey(value) == MapLit(FALSE, value)

From(value) == MapLit(TRUE, value)

\* Null that stores the zero value under the value key.
Null_ValueKey(T) == MapLit(TRUE, ZeroValue(T))

Null(T) == MapLit(FALSE, ZeroValue(T))

Opt_IsNull(t) == MapHas(t, FALSE)

\* IsSet that looks for the value key only.
Opt_IsSet_ValueKeyOnly(t) == MapHas(t, TRUE)

Opt_IsSet(t) == MapLen(t) # 0

\* Get that takes the value out of the map (delete(t, true)) as it returns
\* it: the receiver is a copy of the map reference, so the write reaches
\* the caller's map.
Opt_Get_Deletes(T, t) ==
    IF MapHas(t, TRUE) /\ ~Opt_IsNull(t)
    THEN [v |-> MapIndex(T, t, TRUE), ok |-> TRUE, wrote |-> EmptyMap]
    ELSE [v |-> ZeroValue(T), ok |-> FALSE]

Opt_Get(T, t) ==
    IF Opt_IsNull(t) THEN [v |-> ZeroValue(T), ok |-> FALSE]
    ELSE IF ~Opt_IsSet(t) THEN [v |-> ZeroValue(T), ok |-> FALSE]
    ELSE [v |-> MapIndex(T, t, TRUE), ok |-> TRUE]

\* MustGet that returns what Get returns, without the panic.
Opt_MustGet_NoPanic(T, t) == [v |-> Opt_Get(T, t).v, panic |-> ""]

Opt_MustGet(T, t) ==
    LET r == Opt_Get(T, t)
    IN IF ~r.ok THEN [v |-> ZeroValue(T), panic |-> "value is not set or null"]
       ELSE [v |-> r.v, panic |-> ""]

\* Set that stores into the map *t already holds (t[true] = value).
Opt_Set_InPlace(t, value) ==
    [isNil |-> FALSE,
     kv |-> [x \in DOMAIN t.kv \cup {TRUE} |-> IF x THEN value ELSE t.kv[x]]]

\* Set as the assignment t[true] = value: Go panics when the map is nil.
Opt_Set_StoresInto(t, value) ==
    IF t.isNil THEN [panic |-> "assignment to entry in nil map"]
    ELSE Opt_Set_InPlace(t, value)

\* Set as the assignment t[true] = value into the map *t references, seen
\* by every copy of the container.
Opt_Set_WritesThrough(t, value) ==
    IF t.isNil THEN [panic |-> "assignment to entry in nil map"]
    ELSE [isNil |-> FALSE, kv |-> Opt_Set_InPlace(t, value).kv, inPlace |-> TRUE]

Opt_Set(t, value) == MapLit(TRUE, value)

\* SetNull that clears the container instead (an empty map).
Opt_SetNull_Clears(T, t) == EmptyMap

Opt_SetNull(T, t) == MapLit(FALSE, ZeroValue(T))

\* Reset that only drops a value, and leaves a Null container Null.
Opt_Reset_ValueOnly(t) == IF MapHas(t, FALSE) THEN t ELSE EmptyMap

Opt_Reset(t) == EmptyMap

\* MarshalJSON without the test for the Null state.
Opt_MarshalJSON_NoNullCheck(T, t) == json_Marshal(MapIndex(T, t, TRUE))

\* MarshalJSON that reads the payload under the wrong key.
Opt_MarshalJSON_WrongKey(T, t) ==
    IF Opt_IsNull(t) THEN [bytes |-> NullBytes, err |-> ""]
    ELSE json_Marshal(MapIndex(T, t, FALSE))

\* MarshalJSON that writes null for an unset container too.
Opt_MarshalJSON_UnsetAsNull(T, t) ==
    IF Opt_IsNull(t) \/ ~Opt_IsSet(t) THEN [bytes |-> NullBytes, err |-> ""]
    ELSE json_Marshal(MapIndex(T, t, TRUE))

Opt_MarshalJSON(T, t) ==
    IF Opt_IsNull(t) THEN [bytes |-> NullBytes, err |-> ""]
    ELSE json_Marshal(MapIndex(T, t, TRUE))

\* UnmarshalJSON that decodes and then forgets to store the value.
Opt_UnmarshalJSON_NoSet(T, t, data) ==
    IF data = NullBytes THEN [t |-> Opt_SetNull(T, t), err |-> ""]
    ELSE [t |-> t, err |-> json_Unmarshal(T, data).err]

\* UnmarshalJSON that stores v before it looks at the error.
Opt_UnmarshalJSON_SetBeforeCheck(T, t, data) ==
    IF data = NullBytes THEN [t |-> Opt_SetNull(T, t), err |-> ""]
    ELSE LET r == json_Unmarshal(T, data)
         IN [t |-> Opt_Set(t, r.v), err |-> r.err]

\* UnmarshalJSON without the test for the literal null.
Opt_UnmarshalJSON_NoNullCheck(T, t, data) ==
    LET r == json_Unmarshal(T, data)
    IN IF r.err # "" THEN [t |-> t, err |-> r.err]
       ELSE [t |-> Opt_Set(t, r.v), err |-> ""]

Opt_UnmarshalJSON(T, t, data) ==
    IF data = NullBytes THEN [t |-> Opt_SetNull(T, t), err |-> ""]
    ELSE LET r == json_Unmarshal(T, data)
         IN IF r.err # "" THEN [t |-> t, err |-> r.err]
            ELSE [t |-> Opt_Set(t, r.v), err |-> ""]

(***************************************************************************)
(* The typed constructors of src/field.go, under their qualified names     *)
(* (Int alone would be the set of integers).                               *)
(***************************************************************************)
param_String(s) == From(s)
param_Int(i) == From(i)
param_Int64(i) == From(i)

\* Bool that returns the unset container for false.
param_Bool_FalseUnset(b) == IF b = GoBool(FALSE) THEN Zero("bool") ELSE From(b)

param_Bool(b) == From(b)
param_Float(f) == From(f)
param_Float32(f) == From(f)
param_Time(t) == From(t)

\* The constructor for the payload type T, and its name.
Helper(T, x) ==
    CASE T = "string" -> param_String(x)
      [] T = "int" -> param_Int(x)
      [] T = "int64" -> param_Int64(x)
      [] T = "bool" -> param_Bool(x)
      [] T = "float64" -> param_Float(x)
      [] T = "float32" -> param_Float32(x)
      [] T = "time.Time" -> param_Time(x)

HelperName(T) ==
    CASE T = "string" -> "String"
      [] T = "int" -> "Int"
      [] T = "int64" -> "Int64"
      [] T = "bool" -> "Bool"
      [] T = "float64" -> "Float"
      [] T = "float32" -> "Float32"
      [] T = "time.Time" -> "Time"

(***************************************************************************)
(* Nullable[T] (src/null.go): the same map, under other names.             *)
(***************************************************************************)
Nullable_New(T) == EmptyMap

Nullable_NewFrom(t) == MapLit(TRUE, t)

Nullable_NewNull(T) == MapLit(FALSE, ZeroValue(T))

Nullable_IsNull(t) == MapHas(t, FALSE)

Nullable_IsSpecified(t) == MapLen(t) # 0

Nullable_Get(T, t) ==
    IF Nullable_IsNull(t) THEN [v |-> ZeroValue(T), ok |-> FALSE]
    ELSE IF ~Nullable_IsSpecified(t) THEN [v |-> ZeroValue(T), ok |-> FALSE]
    ELSE [v |-> MapIndex(T, t, TRUE), ok |-> TRUE]

Nullable_MustGet(T, t) ==
    LET r == Nullable_Get(T, t)
    IN IF ~r.ok THEN [v |-> ZeroValue(T), panic |-> "value is not specified or null"]
       ELSE [v |-> r.v, panic |-> ""]

Nullable_Set(t, value) == MapLit(TRUE, value)

\* SetNull that empties the map, as SetUnspecified does.
Nullable_SetNull_Unsets(T, t) == EmptyMap

Nullable_SetNull(T, t) == MapLit(FALSE, ZeroValue(T))

Nullable_SetUnspecified(t) == EmptyMap

Nullable_MarshalJSON(T, t) ==
    IF Nullable_IsNull(t) THEN [bytes |-> NullBytes, err |-> ""]
    ELSE json_Marshal(MapIndex(T, t, TRUE))

\* UnmarshalJSON of null.go without the test for the literal null.
Nullable_UnmarshalJSON_NoNullCheck(T, t, data) ==
    LET r == json_Unmarshal(T, data)
    IN IF r.err # "" THEN [t |-> t, err |-> r.err]
       ELSE [t |-> Nullable_Set(t, r.v), err |-> ""]

Nullable_UnmarshalJSON(T, t, data) ==
    IF data = NullBytes THEN [t |-> Nullable_SetNull(T, t), err |-> ""]
    ELSE LET r == json_Unmarshal(T, data)
         IN IF r.err # "" THEN [t |-> t, err |-> r.err]
            ELSE [t |-> Nullable_Set(t, r.v), err |-> ""]

(***************************************************************************)
(* Null[T] (src/nullable.go): a struct of the value and a State.           *)
(***************************************************************************)
StateUnset == 0
StateNull == 1
StateValid == 2

Null_New(T) == [value |-> ZeroValue(T), state |-> StateUnset]

Null_NewFrom(t) == [value |-> t, state |-> StateValid]

Null_NewNull(T) == [value |-> ZeroValue(T), state |-> StateNull]

Null_Get(T, n) ==
    IF n.state # StateValid THEN [v |-> ZeroValue(T), ok |-> FALSE]
    ELSE [v |-> n.value, ok |-> TRUE]

Null_MustGet(T, n) ==
    LET r == Null_Get(T, n)
    IN IF r.ok THEN [v |-> r.v, panic |-> ""]
       ELSE [v |-> ZeroValue(T), panic |-> "value is not specified"]

Null_Set(n, value) == [value |-> value, state |-> StateValid]

Null_IsNull(n) == n.state = StateNull

\* SetNull that changes the state and leaves the value.
Null_SetNull_KeepsValue(T, n) == [value |-> n.value, state |-> StateNull]

Null_SetNull(T, n) == [value |-> ZeroValue(T), state |-> StateNull]

Null_IsSpecified(n) == n.state # StateUnset

\* IsZero that holds every container without a value to be zero.
Null_IsZero_NotValid(n) == n.state # StateValid

Null_IsZero(n) == n.state = StateUnset

\* SetUnspecified that changes the state and leaves the value.
Null_SetUnspecified_KeepsValue(T, n) == [value |-> n.value, state |-> StateUnset]

Null_SetUnspecified(T, n) == [value |-> ZeroValue(T), state |-> StateUnset]

Null_MarshalJSON(n) ==
    IF n.state = StateNull THEN [bytes |-> NullBytes, err |-> ""]
    ELSE json_Marshal(n.value)

Null_UnmarshalJSON(T, n, data) ==
    IF data = NullBytes THEN [t |-> Null_SetNull(T, n), err |-> ""]
    ELSE LET r == json_Unmarshal(T, data)
         IN IF r.err # "" THEN [t |-> n, err |-> r.err]
            ELSE [t |-> Null_Set(n, r.v), err |-> ""]

(***************************************************************************)
(* The operations on a field declared with container type I: Go picks the  *)
(* method of the field's type.                                             *)
(***************************************************************************)
Impls == {"Opt", "Nullable", "Null"}
MapBacked == {"Opt", "Nullable"}

\* The value of a declared and never assigned field: a nil map, a zero struct.
Default(I, T) ==
    IF I \in MapBacked THEN NilMap ELSE [value |-> ZeroValue(T), state |-> StateUnset]

MakeAbsent(I, T) ==
    CASE I = "Opt" -> Zero(T) [] I = "Nullable" -> Nullable_New(T) [] I = "Null" -> Null_New(T)

MakePresent(I, value) ==
    CASE I = "Opt" -> From(value)
      [] I = "Nullable" -> Nullable_NewFrom(value)
      [] I = "Null" -> Null_NewFrom(value)

MakeNull(I, T) ==
    CASE I = "Opt" -> Null(T) [] I = "Nullable" -> Nullable_NewNull(T) [] I = "Null" -> Null_NewNull(T)

IsNull(I, t) ==
    CASE I = "Opt" -> Opt_IsNull(t) [] I = "Nullable" -> Nullable_IsNull(t) [] I = "Null" -> Null_IsNull(t)

IsSet(I, t) ==
    CASE I = "Opt" -> Opt_IsSet(t)
      [] I = "Nullable" -> Nullable_IsSpecified(t)
      [] I = "Null" -> Null_IsSpecified(t)

Get(I, T, t) ==
    CASE I = "Opt" -> Opt_Get(T, t) [] I = "Nullable" -> Nullable_Get(T, t) [] I = "Null" -> Null_Get(T, t)

MustGet(I, T, t) ==
    CASE I = "Opt" -> Opt_MustGet(T, t)
      [] I = "Nullable" -> Nullable_MustGet(T, t)
      [] I = "Null" -> Null_MustGet(T, t)

Set(I, t, value) ==
    CASE I = "Opt" -> Opt_Set(t, value)
      [] I = "Nullable" -> Nullable_Set(t, value)
      [] I = "Null" -> Null_Set(t, value)

SetNull(I, T, t) ==
    CASE I = "Opt" -> Opt_SetNull(T, t)
      [] I = "Nullable" -> Nullable_SetNull(T, t)
      [] I = "Null" -> Null_SetNull(T, t)

Reset(I, T, t) ==
    CASE I = "Opt" -> Opt_Reset(t)
      [] I = "Nullable" -> Nullable_SetUnspecified(t)
      [] I = "Null" -> Null_SetUnspecified(T, t)

MarshalJSON(I, T, t) ==
    CASE I = "Opt" -> Opt_MarshalJSON(T, t)
      [] I = "Nullable" -> Nullable_MarshalJSON(T, t)
      [] I = "Null" -> Null_MarshalJSON(t)

UnmarshalJSON(I, T, t, data) ==
    CASE I = "Opt" -> Opt_UnmarshalJSON(T, t, data)
      [] I = "Nullable" -> Nullable_UnmarshalJSON(T, t, data)
      [] I = "Null" -> Null_UnmarshalJSON(T, t, data)

(***************************************************************************)
(* The enclosing struct, as in TestJSONMarshaling:                         *)
(*     Required param.Opt[T] `json:"required"`                             *)
(*     Optional param.Opt[T] `json:"optional,omitempty"`                   *)
(* its fields declared with container type I, and encoding/json's walk     *)
(* over the fields.  A JSON object is the sequence of its members          *)
(* [key, val], val being the member's bytes.                               *)
(***************************************************************************)
Fields == <<"required", "optional">>
FieldSet == {Fields[i] : i \in 1..Len(Fields)}
OmitEmpty(f) == f = "optional"

\* encoding/json's isEmptyValue: a map is empty when its length is 0, a
\* struct never is.
\* isEmptyValue that holds the nil map alone to be empty.
isEmptyValue_NilOnly(I, t) == IF I \in MapBacked THEN t.isNil ELSE FALSE

isEmptyValue(I, t) == IF I \in MapBacked THEN MapLen(t) = 0 ELSE FALSE

RECURSIVE EncodeFields(_, _, _, _, _)
EncodeFields(I, T, obj, i, acc) ==
    IF i > Len(Fields) THEN [object |-> acc, err |-> ""]
    ELSE LET f == Fields[i]
         IN IF OmitEmpty(f) /\ isEmptyValue(I, obj[f])
            THEN EncodeFields(I, T, obj, i + 1, acc)
            ELSE LET r == MarshalJSON(I, T, obj[f])
                 IN IF r.err # ""
                    THEN [object |-> <<>>, err |-> "json: error calling MarshalJSON: " \o r.err]
                    ELSE EncodeFields(I, T, obj, i + 1, Append(acc, [key |-> f, val |-> r.bytes]))

\* json.Marshal(obj) for the struct.
json_MarshalStruct(I, T, obj) == EncodeFields(I, T, obj, 1, <<>>)

HasKey(object, k) == \E i \in 1..Len(object) : object[i].key = k
Member(object, k) == object[CHOOSE i \in 1..Len(object) : object[i].key = k].val

\* decodeMember that hands every known key's value to the first field.
decodeMember_FirstField(I, T, obj, k, data) ==
    IF k \in FieldSet
    THEN LET r == UnmarshalJSON(I, T, obj[Fields[1]], data)
         IN IF Panicked(r.t)
            THEN [obj |-> obj, err |-> "", invoked |-> {Fields[1]}, panic |-> r.t.panic]
            ELSE [obj |-> [obj EXCEPT ![Fields[1]] = r.t], err |-> r.err,
                  invoked |-> {Fields[1]}, panic |-> ""]
    ELSE [obj |-> obj, err |-> "", invoked |-> {}, panic |-> ""]

\* decodeMember that leaves a field alone once it is set: the first token
\* for a key wins.
decodeMember_KeepsSet(I, T, obj, k, data) ==
    IF k \in FieldSet /\ ~IsSet(I, obj[k])
    THEN LET r == UnmarshalJSON(I, T, obj[k], data)
         IN [obj |-> [obj EXCEPT ![k] = r.t], err |-> r.err, invoked |-> {k}, panic |-> ""]
    ELSE [obj |-> obj, err |-> "", invoked |-> {}, panic |-> ""]

\* decodeMember that gives up the whole struct when a member fails: every
\* field is back at its default value.
decodeMember_ZeroesOnError(I, T, obj, k, data) ==
    IF k \in FieldSet
    THEN LET r == UnmarshalJSON(I, T, obj[k], data)
         IN IF r.err # ""
            THEN [obj |-> [g \in FieldSet |-> Default(I, T)], err |-> r.err,
                  invoked |-> {k}, panic |-> ""]
            ELSE [obj |-> [obj EXCEPT ![k] = r.t], err |-> "", invoked |-> {k}, panic |-> ""]
    ELSE [obj |-> obj, err |-> "", invoked |-> {}, panic |-> ""]

\* One member k: data of an input object, decoded into the struct obj: a key
\* naming a field goes to that field's UnmarshalJSON, whose error ends the
\* call; any other key is skipped.  invoked is the field called, if any.
\* A panic in UnmarshalJSON is not recovered by the decoder.
decodeMember(I, T, obj, k, data) ==
    IF k \in FieldSet
    THEN LET r == UnmarshalJSON(I, T, obj[k], data)
         IN IF Panicked(r.t)
            THEN [obj |-> obj, err |-> "", invoked |-> {k}, panic |-> r.t.panic]
            ELSE [obj |-> [obj EXCEPT ![k] = r.t], err |-> r.err, invoked |-> {k}, panic |-> ""]
    ELSE [obj |-> obj, err |-> "", invoked |-> {}, panic |-> ""]

\* json.Unmarshal(object, &obj) for a whole, syntactically valid object.
RECURSIVE DecodeMembers(_, _, _, _, _)
DecodeMembers(I, T, obj, object, i) ==
    IF i > Len(object) THEN [obj |-> obj, err |-> "", panic |-> ""]
    ELSE LET r == decodeMember(I, T, obj, object[i].key, object[i].val)
         IN IF r.err # "" \/ r.panic # ""
            THEN [obj |-> r.obj, err |-> r.err, panic |-> r.panic]
            ELSE DecodeMembers(I, T, r.obj, object, i + 1)

json_UnmarshalStruct(I, T, obj, object) == DecodeMembers(I, T, obj, object, 1)

(***************************************************************************)
(* Inputs.                                                                 *)
(***************************************************************************)
\* The JSON values a decoder can meet at a member's position.
ValueTokens ==
    {NullBytes}
      \cup {Itoa(n) : n \in 0..MaxInt}
      \cup {<<QUOTE>> \o s \o <<QUOTE>> : s \in StringsUpTo(MaxStrLen)}

\* What a caller can pass to UnmarshalJSON directly: also bytes that are no
\* JSON value, and a value with white space around it.
DirectTokens == ValueTokens \cup {<<"n", "u", "l">>, <<" ">> \o NullBytes}

\* The members an input object can hold: a known key with any value, and a
\* key the struct does not know (whose value the decoder skips).
InputMembers ==
    {[key |-> k, val |-> data] : k \in FieldSet, data \in ValueTokens}
      \cup {[key |-> "extra", val |-> NullBytes]}

\* The input objects of no, one or two members: a key alone, two keys in
\* either order, a key twice.
InputObjects ==
    {<<>>} \cup {<<m>> : m \in InputMembers}
           \cup {<<m1, m2>> : m1 \in InputMembers, m2 \in InputMembers}

(***************************************************************************)
(* State.                                                                  *)
(***************************************************************************)
NoValue == [kind |-> "none", n |-> 0, s |-> <<>>, isNil |-> FALSE, nan |-> FALSE]

\* No container: the receiver of a call that has none.
NoContainer == <<>>

\* A call record: the operation, its receiver field and arguments, and
\* what it returned (value and ok for the accessors, panic for a call that
\* panicked), and for a mutation the container the receiver held before
\* and whether it shared its map with the other field; for a json.Unmarshal
\* call that failed, the fields that differ from what they held before it.
Call(op, f, value, data, err, bytes, object) ==
    [op |-> op, field |-> f, value |-> value, data |-> data,
     err |-> err, bytes |-> bytes, object |-> object,
     ok |-> FALSE, panic |-> "", was |-> NoContainer, shared |-> FALSE,
     changed |-> {}]

Did(op, f) == Call(op, f, NoValue, <<>>, "", <<>>, <<>>)

\* The record of an accessor's call: the value and the bool it returned, or
\* the panic it raised.
Returned(op, f, value, ok, panic) ==
    [Did(op, f) EXCEPT !.value = value, !.ok = ok, !.panic = panic]

\* The record of a mutation's call on a receiver that held was, sharing its
\* map with the other field or not; r is what the call left in the
\* receiver, or its panic.
Mutated(call, was, al, r) ==
    [call EXCEPT !.was = was, !.shared = al,
                 !.panic = IF Panicked(r) THEN r.panic ELSE ""]

\* A call that wrote into the map its receiver references, instead of
\* assigning a map to the receiver, leaves the map marked.
InPlace(r) == "inPlace" \in DOMAIN r

\* The struct after a call through the pointer receiver &obj.f that left r:
\* an assignment *t = r changes field f alone; a write into the map is seen
\* through every field that references the map (al: both fields do).
Stored(obj, f, al, r) ==
    IF Panicked(r) THEN obj
    ELSE IF InPlace(r)
         THEN [g \in FieldSet |->
                  IF g = f \/ al THEN [isNil |-> r.isNil, kv |-> r.kv] ELSE obj[g]]
         ELSE [obj EXCEPT ![f] = r]

\* A call through a value receiver gets a copy of the container: it cannot
\* assign to the caller's variable, and a struct copy is out of its reach;
\* a write into the map the copy references is the one way it can change
\* what the caller holds.  Such a call leaves the map it wrote in r.wrote.
\* The struct after a call through the value receiver obj.f that returned r:
AfterRead(obj, f, al, r) ==
    IF "wrote" \in DOMAIN r
    THEN [g \in FieldSet |-> IF g = f \/ al THEN r.wrote ELSE obj[g]]
    ELSE obj

\* Whether the fields still share a map after that call: an assignment to
\* the receiver ends the sharing, a call that assigned nothing does not.
StillAliased(al, r, err) ==
    IF Panicked(r) \/ InPlace(r) \/ err # "" THEN al ELSE FALSE

\* var p Payload
ZeroPayload(I, T) == [f \in FieldSet |-> Default(I, T)]

\* No json.Unmarshal call in progress.
DecIdle == [active |-> FALSE, before |-> <<>>, keys |-> {}, invoked |-> {}]

Init ==
    /\ impl \in Impls
    /\ typ \in PayloadTypes
    /\ p = ZeroPayload(impl, typ)
    /\ dec = DecIdle
    /\ ret = Did("var", "")
    /\ aliased = FALSE

(***************************************************************************)
(* Operations of the caller on one field of the struct.  The call records  *)
(* name the operations as src/option.go does: Zero, From, Null are New,    *)
(* NewFrom, NewNull in the other two files, IsSet is IsSpecified and       *)
(* Reset is SetUnspecified.                                                *)
(***************************************************************************)
\* var p Payload: a fresh struct.
NewPayload ==
    /\ ~dec.active
    /\ p' = ZeroPayload(impl, typ)
    /\ ret' = Did("var", "")
    /\ aliased' = FALSE
    /\ UNCHANGED <<impl, typ, dec>>

\* p.f = param.Zero[T]()
AssignZero(f) ==
    /\ ~dec.active
    /\ p' = [p EXCEPT ![f] = MakeAbsent(impl, typ)]
    /\ ret' = Did("Zero", f)
    /\ aliased' = FALSE
    /\ UNCHANGED <<impl, typ, dec>>

\* p.f = param.From(value)
AssignFrom(f, value) ==
    /\ ~dec.active
    /\ p' = [p EXCEPT ![f] = MakePresent(impl, value)]
    /\ ret' = Call("From", f, value, <<>>, "", <<>>, <<>>)
    /\ aliased' = FALSE
    /\ UNCHANGED <<impl, typ, dec>>

\* p.f = param.Null[T]()
AssignNull(f) ==
    /\ ~dec.active
    /\ p' = [p EXCEPT ![f] = MakeNull(impl, typ)]
    /\ ret' = Did("Null", f)
    /\ aliased' = FALSE
    /\ UNCHANGED <<impl, typ, dec>>

\* p.f = p.g: the container is copied by value.  A map-backed container is
\* a reference to its map, so the two fields then share the map, unless
\* it is nil; a struct is copied whole.
AssignCopy(f, g) ==
    /\ ~dec.active
    /\ f # g
    /\ p' = [p EXCEPT ![f] = p[g]]
    /\ ret' = [Did("copy", f) EXCEPT !.was = p[g]]
    /\ aliased' = (impl \in MapBacked /\ ~p[g].isNil)
    /\ UNCHANGED <<impl, typ, dec>>

\* p.f.Set(value)
CallSet(f, value) ==
    /\ ~dec.active
    /\ LET r == Set(impl, p[f], value)
       IN /\ p' = Stored(p, f, aliased, r)
          /\ ret' = Mutated(Call("Set", f, value, <<>>, "", <<>>, <<>>), p[f], aliased, r)
          /\ aliased' = StillAliased(aliased, r, "")
    /\ UNCHANGED <<impl, typ, dec>>

\* p.f.SetNull()
CallSetNull(f) ==
    /\ ~dec.active
    /\ LET r == SetNull(impl, typ, p[f])
       IN /\ p' = Stored(p, f, aliased, r)
          /\ ret' = Mutated(Did("SetNull", f), p[f], aliased, r)
          /\ aliased' = StillAliased(aliased, r, "")
    /\ UNCHANGED <<impl, typ, dec>>

\* p.f.Reset()
CallReset(f) ==
    /\ ~dec.active
    /\ LET r == Reset(impl, typ, p[f])
       IN /\ p' = Stored(p, f, aliased, r)
          /\ ret' = Mutated(Did("Reset", f), p[f], aliased, r)
          /\ aliased' = StillAliased(aliased, r, "")
    /\ UNCHANGED <<impl, typ, dec>>

\* err := p.f.UnmarshalJSON(data)
CallUnmarshalJSON(f, data) ==
    /\ ~dec.active
    /\ \E r \in {UnmarshalJSON(impl, typ, p[f], data)} :
          /\ p' = Stored(p, f, aliased, r.t)
          /\ ret' = Mutated(Call("UnmarshalJSON", f, NoValue, data, r.err, <<>>, <<>>),
                            p[f], aliased, r.t)
          /\ aliased' = StillAliased(aliased, r.t, r.err)
    /\ UNCHANGED <<impl, typ, dec>>

\* bytes, err := p.f.MarshalJSON()
CallMarshalJSON(f) ==
    /\ ~dec.active
    /\ \E r \in {MarshalJSON(impl, typ, p[f])} :
          /\ ret' = Call("MarshalJSON", f, NoValue, <<>>, r.err, r.bytes, <<>>)
          /\ p' = AfterRead(p, f, aliased, r)
    /\ UNCHANGED <<impl, typ, dec, aliased>>

\* p.f.IsSet()
CallIsSet(f) ==
    /\ ~dec.active
    /\ ret' = Returned("IsSet", f, NoValue, IsSet(impl, p[f]), "")
    /\ UNCHANGED <<impl, typ, p, dec, aliased>>

\* p.f.IsNull()
CallIsNull(f) ==
    /\ ~dec.active
    /\ ret' = Returned("IsNull", f, NoValue, IsNull(impl, p[f]), "")
    /\ UNCHANGED <<impl, typ, p, dec, aliased>>

\* v, ok := p.f.Get()
CallGet(f) ==
    /\ ~dec.active
    /\ \E r \in {Get(impl, typ, p[f])} :
          /\ ret' = Returned("Get", f, r.v, r.ok, "")
          /\ p' = AfterRead(p, f, aliased, r)
    /\ UNCHANGED <<impl, typ, dec, aliased>>

\* v := p.f.MustGet(), the caller recovering from the panic: a call that
\* panics returns no value.
CallMustGet(f) ==
    /\ ~dec.active
    /\ \E r \in {MustGet(impl, typ, p[f])} :
          /\ ret' = Returned("MustGet", f, IF r.panic = "" THEN r.v ELSE NoValue, FALSE, r.panic)
          /\ p' = AfterRead(p, f, aliased, r)
    /\ UNCHANGED <<impl, typ, dec, aliased>>

\* p.f.IsZero(): the struct-backed Null alone has the method.
CallIsZero(f) ==
    /\ ~dec.active
    /\ impl = "Null"
    /\ ret' = Returned("IsZero", f, NoValue, Null_IsZero(p[f]), "")
    /\ UNCHANGED <<impl, typ, p, dec, aliased>>

\* bytes, err := json.Marshal(p)
JsonMarshal ==
    /\ ~dec.active
    /\ LET r == json_MarshalStruct(impl, typ, p)
       IN ret' = Call("json.Marshal", "", NoValue, <<>>, r.err, <<>>, r.object)
    /\ UNCHANGED <<impl, typ, p, dec, aliased>>

(***************************************************************************)
(* err := json.Unmarshal(input, &p).  The decoder first scans the whole    *)
(* input (a syntax error fails the call before anything is stored), then   *)
(* walks the object member by member, handing each known key's value to    *)
(* that field's UnmarshalJSON and returning the first error it gets.       *)
(* dec holds, while the call runs, the struct as it was before the call,   *)
(* the keys met so far and the fields whose UnmarshalJSON was called.      *)
(***************************************************************************)
JsonUnmarshalSyntaxError ==
    /\ ~dec.active
    /\ ret' = Call("json.Unmarshal", "", NoValue, <<>>, "json: syntax error", <<>>, <<>>)
    /\ UNCHANGED <<impl, typ, p, dec, aliased>>

JsonUnmarshalBegin ==
    /\ ~dec.active
    /\ dec' = [active |-> TRUE, before |-> p, keys |-> {}, invoked |-> {}]
    /\ ret' = Did("json.Unmarshal:begin", "")
    /\ UNCHANGED <<impl, typ, p, aliased>>

\* The next member of the input object is k: data.  An error from the
\* field's UnmarshalJSON ends the call.
DecodeMember(k, data) ==
    /\ dec.active
    /\ \E r \in {decodeMember(impl, typ, p, k, data)} :
          /\ p' = r.obj
          /\ IF r.err = "" /\ r.panic = ""
             THEN /\ dec' = [dec EXCEPT !.keys = @ \cup {k}, !.invoked = @ \cup r.invoked]
                  /\ ret' = Call("json.Unmarshal:member", k, NoValue, data, "", <<>>, <<>>)
             ELSE /\ dec' = DecIdle
                  /\ ret' = [Call("json.Unmarshal", k, NoValue, data, r.err, <<>>, <<>>)
                                EXCEPT !.panic = r.panic,
                                       !.changed = {g \in FieldSet : r.obj[g] # dec.before[g]}]
          /\ aliased' = IF k \in FieldSet /\ r.err = "" /\ r.panic = "" THEN FALSE ELSE aliased
    /\ UNCHANGED <<impl, typ>>

\* The input object ends: json.Unmarshal returns nil.
JsonUnmarshalEnd ==
    /\ dec.active
    /\ dec' = DecIdle
    /\ ret' = Did("json.Unmarshal", "")
    /\ UNCHANGED <<impl, typ, p, aliased>>

Next ==
    \/ NewPayload
    \/ \E f \in FieldSet : AssignZero(f)
    \/ \E f \in FieldSet : \E value \in GoValues(typ) : AssignFrom(f, value)
    \/ \E f \in FieldSet : AssignNull(f)
    \/ \E f \in FieldSet : \E g \in FieldSet : AssignCopy(f, g)
    \/ \E f \in FieldSet : \E value \in GoValues(typ) : CallSet(f, value)
    \/ \E f \in FieldSet : CallSetNull(f)
    \/ \E f \in FieldSet : CallReset(f)
    \/ \E f \in FieldSet : \E data \in DirectTokens : CallUnmarshalJSON(f, data)
    \/ \E f \in FieldSet : CallMarshalJSON(f)
    \/ \E f \in FieldSet : CallIsSet(f)
    \/ \E f \in FieldSet : CallIsNull(f)
    \/ \E f \in FieldSet : CallGet(f)
    \/ \E f \in FieldSet : CallMustGet(f)
    \/ \E f \in FieldSet : CallIsZero(f)
    \/ JsonMarshal
    \/ JsonUnmarshalSyntaxError
    \/ JsonUnmarshalBegin
    \/ \E m \in InputMembers : DecodeMember(m.key, m.val)
    \/ JsonUnmarshalEnd

Spec == Init /\ [][Next]_vars

(***************************************************************************)
(* A program that fills the fields of a struct of Opt[T] with the typed    *)
(* constructors of src/field.go, T being one of their payload types, and   *)
(* inspects them.                                                          *)
(***************************************************************************)
FieldInit ==
    /\ impl = "Opt"
    /\ typ \in HelperTypes
    /\ p = ZeroPayload(impl, typ)
    /\ dec = DecIdle
    /\ ret = Did("var", "")
    /\ aliased = FALSE

\* p.f = param.String(x), param.Int(x), ...
AssignHelper(f, x) ==
    /\ ~dec.active
    /\ p' = [p EXCEPT ![f] = Helper(typ, x)]
    /\ ret' = Call(HelperName(typ), f, x, <<>>, "", <<>>, <<>>)
    /\ aliased' = FALSE
    /\ UNCHANGED <<impl, typ, dec>>

FieldNext ==
    \/ \E f \in FieldSet : \E x \in GoValues(typ) : AssignHelper(f, x)
    \/ \E f \in FieldSet : CallIsSet(f)
    \/ \E f \in FieldSet : CallIsNull(f)
    \/ \E f \in FieldSet : CallGet(f)
    \/ \E f \in FieldSet : CallMustGet(f)

FieldSpec == FieldInit /\ [][FieldNext]_vars

(***************************************************************************)
(* The three states, as the inspection operations report them.             *)
(***************************************************************************)
IsAbsent(t) == ~IsSet(impl, t)
IsNullState(t) == IsNull(impl, t)
IsPresent(t) == Get(impl, typ, t).ok
Payload(t) == Get(impl, typ, t).v

\* Same state, and the same payload when Present.
SameState(a, b) ==
    /\ IsSet(impl, a) = IsSet(impl, b)
    /\ IsNull(impl, a) = IsNull(impl, b)
    /\ Get(impl, typ, a) = Get(impl, typ, b)

Marshalled == ret.op = "json.Marshal" /\ ret.err = ""

(***************************************************************************)
(* C1: for the omitempty field of a map-backed container type,             *)
(* json.Marshal of the struct drops the key if and only if the container   *)
(* is Absent; a Null container appears as null and a Present one as its    *)
(* payload's encoding, the zero value included.  json.Marshal fails only   *)
(* when some Present payload has no encoding.                              *)
(***************************************************************************)
C1_OmitEmptyIffAbsent ==
    (impl \in MapBacked /\ ret.op = "json.Marshal") =>
        IF ret.err = ""
        THEN /\ HasKey(ret.object, "optional") <=> ~IsAbsent(p["optional"])
             /\ IsNullState(p["optional"]) => Member(ret.object, "optional") = NullBytes
             /\ IsPresent(p["optional"]) =>
                    Member(ret.object, "optional") = json_Marshal(Payload(p["optional"])).bytes
             /\ (typ = "int" /\ p["optional"] = From(GoInt(0))) =>
                    Member(ret.object, "optional") = <<"0">>
        ELSE \E f \in FieldSet :
                /\ IsPresent(p[f])
                /\ json_Marshal(Payload(p[f])).err # ""

\* Set(0) on the omitempty field of type Opt[int], marshalled:
\* "optional":0 is in the output.
C1_Witness ==
    /\ Marshalled
    /\ impl = "Opt"
    /\ typ = "int"
    /\ p["optional"] = From(GoInt(0))
    /\ HasKey(ret.object, "optional")

(***************************************************************************)
(* C2 as stated: decoding the output of json.Marshal into a fresh struct   *)
(* gives every field the state it had.                                     *)
(***************************************************************************)
RoundTrip == json_UnmarshalStruct(impl, typ, ZeroPayload(impl, typ), ret.object)

C3_ExactlyOneState ==
    \A f \in FieldSet :
        /\ Cardinality({x \in {"Absent", "Null", "Present"} :
                           \/ x = "Absent" /\ IsAbsent(p[f])
                           \/ x = "Null" /\ IsNullState(p[f])
                           \/ x = "Present" /\ IsPresent(p[f])}) = 1
        /\ impl \in MapBacked =>
               /\ DOMAIN p[f].kv \in {{}, {FALSE}, {TRUE}}
               /\ p[f].isNil => DOMAIN p[f].kv = {}
        /\ impl = "Null" => p[f].state \in {StateUnset, StateNull, StateValid}

\* Set has just run on a map-backed field that was Null before (it is the
\* field decoded from null by the call before), the other field being Null.
C3_Witness ==
    /\ impl \in MapBacked
    /\ ret.op = "Set"
    /\ IsPresent(p[ret.field])
    /\ \E f \in FieldSet : f # ret.field /\ IsNullState(p[f])

(***************************************************************************)
(* C4: UnmarshalJSON given exactly the bytes null returns no error and     *)
(* leaves the container Null (IsSet, IsNull, Get not ok), called directly  *)
(* or by json.Unmarshal for a member, from every prior state.              *)
(***************************************************************************)
UnmarshalJSONCalled ==
    /\ ret.op \in {"UnmarshalJSON", "json.Unmarshal:member", "json.Unmarshal"}
    /\ ret.field \in FieldSet

C4_NullTokenGivesNull ==
    (UnmarshalJSONCalled /\ ret.data = NullBytes) =>
        /\ ret.err = ""
        /\ IsSet(impl, p[ret.field])
        /\ IsNull(impl, p[ret.field])
        /\ Get(impl, typ, p[ret.field]) = [v |-> ZeroValue(typ), ok |-> FALSE]

\* json.Unmarshal met "f": null for a field that was Present before the call.
C4_Witness ==
    /\ ret.op = "json.Unmarshal:member"
    /\ ret.data = NullBytes
    /\ ret.field \in FieldSet
    /\ dec.active
    /\ IsPresent(dec.before[ret.field])
    /\ Payload(dec.before[ret.field]) # ZeroValue(typ)
    /\ IsNull(impl, p[ret.field])

(***************************************************************************)
(* C5: UnmarshalJSON given bytes other than null that decode as T to v,    *)
(* returns no error and leaves the container Present(v): IsSet, not        *)
(* IsNull, Get = (v, true), also when v is T's zero value.                 *)
(***************************************************************************)
C5_ValueTokenGivesPresent ==
    (UnmarshalJSONCalled /\ ret.data # NullBytes /\ json_Unmarshal(typ, ret.data).err = "") =>
        /\ ret.err = ""
        /\ IsSet(impl, p[ret.field])
        /\ ~IsNull(impl, p[ret.field])
        /\ Get(impl, typ, p[ret.field]) = [v |-> json_Unmarshal(typ, ret.data).v, ok |-> TRUE]
        /\ (typ = "string" /\ ret.data = <<QUOTE, QUOTE>>) =>
               Get(impl, typ, p[ret.field]) = [v |-> GoString(<<>>), ok |-> TRUE]
        /\ (typ = "int" /\ ret.data = <<"1">>) =>
               Get(impl, typ, p[ret.field]) = [v |-> GoInt(1), ok |-> TRUE]

\* "f": "" decoded into a string container that was Null before the call.
C5_Witness ==
    /\ ret.op = "json.Unmarshal:member"
    /\ typ = "string"
    /\ ret.data = <<QUOTE, QUOTE>>
    /\ ret.field \in FieldSet
    /\ dec.active
    /\ IsNullState(dec.before[ret.field])
    /\ Get(impl, typ, p[ret.field]) = [v |-> GoString(<<>>), ok |-> TRUE]

(***************************************************************************)
(* C6: when the bytes given to UnmarshalJSON do not decode as T, the call  *)
(* returns a non-nil error, json.Unmarshal returns it and stops, and the   *)
(* container is exactly what it was before the call.                       *)
(***************************************************************************)
C6_DecodeErrorLeavesContainer ==
    [][ ( /\ ret'.op \in {"UnmarshalJSON", "json.Unmarshal:member", "json.Unmarshal"}
          /\ ret'.field \in FieldSet
          /\ ret'.data # NullBytes
          /\ json_Unmarshal(typ, ret'.data).err # "" )
        => ( /\ ret'.err # ""
             /\ ret'.op \in {"UnmarshalJSON", "json.Unmarshal"}
             /\ ~dec'.active
             /\ p' = p ) ]_vars

\* The number 1 for a string container that is Present("a"): json.Unmarshal
\* has returned an error, and the container still holds "a".
C6_Witness ==
    /\ ret.op = "json.Unmarshal"
    /\ ret.err # ""
    /\ typ = "string"
    /\ ret.field \in FieldSet
    /\ ret.data = <<"1">>
    /\ Get(impl, typ, p[ret.field]) = [v |-> GoString(<<"a">>), ok |-> TRUE]

(***************************************************************************)
(* C7: while json.Unmarshal decodes an object, a field whose key the       *)
(* input has not held has not had its UnmarshalJSON called and is exactly  *)
(* what it was before the call (Absent, for a fresh struct); and the step  *)
(* in which the call returns stores nothing, so this is how the call       *)
(* leaves the field.                                                       *)
(***************************************************************************)
C7_MissingKeyLeavesContainer ==
    /\ [](dec.active =>
            \A f \in FieldSet :
                f \notin dec.keys =>
                    /\ f \notin dec.invoked
                    /\ p[f] = dec.before[f]
                    /\ dec.before[f] = Default(impl, typ) =>
                           (~IsSet(impl, p[f]) /\ ~IsNull(impl, p[f])))
    /\ [][(dec.active /\ ~dec'.active) => p' = p]_vars

\* json.Unmarshal has read an object that holds a key for one field only,
\* the other field having been Present before the call.
C7_Witness ==
    /\ dec.active
    /\ dec.keys = {"required", "extra"}
    /\ IsPresent(dec.before["optional"])
    /\ p["optional"] = dec.before["optional"]
    /\ p["required"] # dec.before["required"]

(***************************************************************************)
(* C8: MarshalJSON of a Null container returns the four bytes null and no  *)
(* error, and json.Marshal writes the member as null for the field with    *)
(* omitempty and for the field without.                                    *)
(***************************************************************************)
C8_NullMarshalsAsNull ==
    /\ (ret.op = "MarshalJSON" /\ IsNullState(p[ret.field])) =>
            ret.bytes = <<"n", "u", "l", "l">> /\ ret.err = ""
    /\ Marshalled =>
            \A f \in FieldSet :
                IsNullState(p[f]) =>
                    HasKey(ret.object, f) /\ Member(ret.object, f) = <<"n", "u", "l", "l">>

\* Both fields Null and marshalled: {"required":null,"optional":null}.
C8_Witness ==
    /\ Marshalled
    /\ typ = "int"
    /\ \A f \in FieldSet : IsNullState(p[f])
    /\ ret.object = <<[key |-> "required", val |-> NullBytes],
                      [key |-> "optional", val |-> NullBytes]>>

(***************************************************************************)
(* C9: MarshalJSON of a Present(v) container returns the bytes and the     *)
(* error of json.Marshal(v).                                               *)
(***************************************************************************)
C9_PresentMarshalsAsPayload ==
    (ret.op = "MarshalJSON" /\ IsPresent(p[ret.field])) =>
        LET v == Payload(p[ret.field])
        IN /\ ret.bytes = json_Marshal(v).bytes
           /\ ret.err = json_Marshal(v).err
           /\ v = GoInt(1) => (ret.bytes = <<"1">> /\ ret.err = "")
           /\ v = GoString(<<"a">>) => (ret.bytes = <<QUOTE, "a", QUOTE>> /\ ret.err = "")
           /\ v = GoNaN => ret.err # ""

\* MarshalJSON on Present(NaN) has returned json.Marshal's error.
C9_Witness ==
    /\ ret.op = "MarshalJSON"
    /\ IsPresent(p[ret.field])
    /\ Payload(p[ret.field]) = GoNaN
    /\ ret.err = "json: unsupported value: NaN"

(***************************************************************************)
(* C10: an Absent container (default value, Zero(), after Reset()) in the  *)
(* field without omitempty is written as the encoding of T's zero value:   *)
(* the key is there, and MarshalJSON returns those bytes.                  *)
(***************************************************************************)
C10_AbsentMarshalsAsZero ==
    /\ (Marshalled /\ IsAbsent(p["required"])) =>
            /\ HasKey(ret.object, "required")
            /\ Member(ret.object, "required") = json_Marshal(ZeroValue(typ)).bytes
            /\ typ = "string" => Member(ret.object, "required") = <<QUOTE, QUOTE>>
            /\ typ = "int" => Member(ret.object, "required") = <<"0">>
    /\ (ret.op = "MarshalJSON" /\ IsAbsent(p[ret.field])) =>
            /\ ret.err = ""
            /\ ret.bytes = json_Marshal(ZeroValue(typ)).bytes

\* The Opt[string] field without omitempty holds the empty map Reset or
\* Zero installs and the struct has been marshalled: {"required":""}.
C10_Witness ==
    /\ Marshalled
    /\ impl = "Opt"
    /\ typ = "string"
    /\ p["required"] = EmptyMap
    /\ ret.object = <<[key |-> "required", val |-> <<QUOTE, QUOTE>>]>>

(***************************************************************************)
(* C11 as stated: for the struct-backed Null[T], the field tagged          *)
(* omitempty is left out of json.Marshal's output whenever its container   *)
(* is Unset (IsZero reports true), so that a struct whose only field it is *)
(* would serialize to {}.                                                  *)
(***************************************************************************)
C11_UnsetStructOmitted ==
    (impl = "Null" /\ Marshalled /\ Null_IsZero(p["optional"])) =>
        ~HasKey(ret.object, "optional")

(***************************************************************************)
(* C11, what json.Marshal does instead: encoding/json's omitempty never    *)
(* finds a struct empty and does not consult IsZero, so the member is      *)
(* written, with the zero value's encoding.                                *)
(***************************************************************************)
C11_UnsetStructWritten ==
    (impl = "Null" /\ Marshalled /\ Null_IsZero(p["optional"])) =>
        /\ HasKey(ret.object, "optional")
        /\ Member(ret.object, "optional") = json_Marshal(ZeroValue(typ)).bytes

\* Set followed by SetUnspecified on the omitempty field of type
\* Null[string], then json.Marshal: "optional":"" is in the output.
C11_Witness ==
    /\ impl = "Null"
    /\ typ = "string"
    /\ Marshalled
    /\ Null_IsZero(p["optional"])
    /\ HasKey(ret.object, "optional")
    /\ Member(ret.object, "optional") = <<QUOTE, QUOTE>>

(***************************************************************************)
(* What the three inspection operations report of a container.             *)
(***************************************************************************)
Observed(t) == [isSet |-> IsSet(impl, t), isNull |-> IsNull(impl, t), get |-> Get(impl, typ, t)]

ObservedAbsent == [isSet |-> FALSE, isNull |-> FALSE, get |-> [v |-> ZeroValue(typ), ok |-> FALSE]]
ObservedNull == [isSet |-> TRUE, isNull |-> TRUE, get |-> [v |-> ZeroValue(typ), ok |-> FALSE]]
ObservedPresent(v) == [isSet |-> TRUE, isNull |-> FALSE, get |-> [v |-> v, ok |-> TRUE]]

(***************************************************************************)
(* C12: for every payload value v, T's zero value included, the container  *)
(* From(v) (NewFrom(v)) has IsSet() = true, IsNull() = false and           *)
(* Get() = (v, true); so the inspection operations tell Present(zero) from *)
(* Null and from Absent (Zero(), and the default value).                   *)
(***************************************************************************)
C12_FromIsPresent ==
    /\ ret.op = "From" =>
        /\ IsSet(impl, p[ret.field])
        /\ ~IsNull(impl, p[ret.field])
        /\ Get(impl, typ, p[ret.field]) = [v |-> ret.value, ok |-> TRUE]
        /\ Observed(p[ret.field]) # Observed(MakeNull(impl, typ))
        /\ Observed(p[ret.field]) # Observed(MakeAbsent(impl, typ))
        /\ Observed(p[ret.field]) # Observed(Default(impl, typ))
    /\ \A f \in FieldSet : \A v \in GoValues(typ) :
        p[f] = MakePresent(impl, v) =>
            /\ (ret.op = "IsSet" /\ ret.field = f) => ret.ok
            /\ (ret.op = "IsNull" /\ ret.field = f) => ~ret.ok
            /\ (ret.op = "Get" /\ ret.field = f) => (ret.ok /\ ret.value = v)

\* From(zero value) has been assigned to a field, the other field being Null.
C12_Witness ==
    /\ ret.op = "From"
    /\ ret.value = ZeroValue(typ)
    /\ p[ret.field] = MakePresent(impl, ZeroValue(typ))
    /\ \E f \in FieldSet : f # ret.field /\ p[f] = MakeNull(impl, typ)

(***************************************************************************)
(* C13: the container Null[T]() (NewNull) has IsSet() = true,              *)
(* IsNull() = true, Get() = (zero value of T, false), and MustGet()        *)
(* panics on it.                                                           *)
(***************************************************************************)
C13_NullIsNull ==
    /\ ret.op = "Null" =>
        /\ Observed(p[ret.field]) = ObservedNull
        /\ MustGet(impl, typ, p[ret.field]).panic # ""
    /\ \A f \in FieldSet :
        p[f] = MakeNull(impl, typ) =>
            /\ (ret.op = "IsSet" /\ ret.field = f) => ret.ok
            /\ (ret.op = "IsNull" /\ ret.field = f) => ret.ok
            /\ (ret.op = "Get" /\ ret.field = f) => (~ret.ok /\ ret.value = ZeroValue(typ))
            /\ (ret.op = "MustGet" /\ ret.field = f) => (ret.panic # "" /\ ret.value = NoValue)

\* MustGet has panicked on a field holding Null[T]().
C13_Witness ==
    /\ ret.op = "MustGet"
    /\ ret.field \in FieldSet
    /\ p[ret.field] = MakeNull(impl, typ)
    /\ ret.panic # ""

(***************************************************************************)
(* C14: the container Zero[T]() (New) and the default value of the         *)
(* container type (a nil map, a zero struct) are both Absent:              *)
(* IsSet() = false, IsNull() = false, Get() = (zero value of T, false).    *)
(***************************************************************************)
C14_ZeroAndDefaultAreAbsent ==
    /\ ret.op = "Zero" => Observed(p[ret.field]) = ObservedAbsent
    /\ ret.op = "var" =>
        \A f \in FieldSet : p[f] = Default(impl, typ) /\ Observed(p[f]) = ObservedAbsent
    /\ \A f \in FieldSet :
        p[f] \in {MakeAbsent(impl, typ), Default(impl, typ)} =>
            /\ (ret.op = "IsSet" /\ ret.field = f) => ~ret.ok
            /\ (ret.op = "IsNull" /\ ret.field = f) => ~ret.ok
            /\ (ret.op = "Get" /\ ret.field = f) => (~ret.ok /\ ret.value = ZeroValue(typ))

\* Zero[T]() has been assigned to one field of an Opt struct (an empty map)
\* while the other still holds the default value (a nil map).
C14_Witness ==
    /\ impl = "Opt"
    /\ ret.op = "Zero"
    /\ p[ret.field] = EmptyMap
    /\ \E f \in FieldSet : f # ret.field /\ p[f] = NilMap

(***************************************************************************)
(* C15: a mutation replaces the state: from Absent (nil or empty), Null or *)
(* Present(w), Set(v) gives Present(v), SetNull() gives Null and Reset()   *)
(* (SetUnspecified) gives Absent, and the container it leaves is the one   *)
(* it leaves from every other start; so what IsSet, IsNull and Get report  *)
(* after a sequence of mutations is fixed by the last one.                 *)
(***************************************************************************)
Starts ==
    {Default(impl, typ), MakeAbsent(impl, typ), MakeNull(impl, typ)}
        \cup {MakePresent(impl, w) : w \in GoValues(typ)}

C15_MutationsReplaceState ==
    /\ ret.op \in {"Set", "SetNull", "Reset"} => ret.was \in Starts
    /\ ret.op = "Set" =>
        /\ Observed(p[ret.field]) = ObservedPresent(ret.value)
        /\ \A t0 \in Starts : Set(impl, t0, ret.value) = p[ret.field]
    /\ ret.op = "SetNull" =>
        /\ Observed(p[ret.field]) = ObservedNull
        /\ \A t0 \in Starts : SetNull(impl, typ, t0) = p[ret.field]
    /\ ret.op = "Reset" =>
        /\ Observed(p[ret.field]) = ObservedAbsent
        /\ \A t0 \in Starts : Reset(impl, typ, t0) = p[ret.field]

\* Reset has run on a container that was Null.
C15_Witness ==
    /\ ret.op = "Reset"
    /\ Observed(ret.was) = ObservedNull
    /\ Observed(p[ret.field]) = ObservedAbsent

(***************************************************************************)
(* C16: MustGet returns without a panic exactly when the container is      *)
(* Present, and then returns its payload; on an Absent and on a Null       *)
(* container it panics and returns nothing, no default value either.       *)
(***************************************************************************)
C16_MustGetPanicsUnlessPresent ==
    ret.op = "MustGet" =>
        /\ ret.panic = "" <=> IsPresent(p[ret.field])
        /\ ret.panic = "" => ret.value = Payload(p[ret.field])
        /\ (IsAbsent(p[ret.field]) \/ IsNullState(p[ret.field])) =>
               (ret.panic # "" /\ ret.value = NoValue)

\* MustGet has returned the zero value: the container is Present(zero).
C16_Witness ==
    /\ ret.op = "MustGet"
    /\ ret.panic = ""
    /\ ret.value = ZeroValue(typ)
    /\ p[ret.field] = MakePresent(impl, ZeroValue(typ))

(***************************************************************************)
(* C18: Set, SetNull, Reset and an UnmarshalJSON whose input decodes       *)
(* complete without a panic and without an error on every container, the  *)
(* default one (a nil map) included: each installs a fresh representation  *)
(* (a map-backed receiver holds a non-nil map afterwards).                 *)
(***************************************************************************)
C18_MutationsAreTotal ==
    /\ ret.op \in {"Set", "SetNull", "Reset"} =>
        /\ ret.panic = ""
        /\ ret.err = ""
        /\ impl \in MapBacked => ~p[ret.field].isNil
    /\ ( /\ ret.op \in {"UnmarshalJSON", "json.Unmarshal:member", "json.Unmarshal"}
         /\ ret.field \in FieldSet
         /\ (ret.data = NullBytes \/ json_Unmarshal(typ, ret.data).err = "") ) =>
        /\ ret.panic = ""
        /\ ret.err = ""
        /\ impl \in MapBacked => ~p[ret.field].isNil

\* Set has run on the nil map a default-constructed field holds.
C18_Witness ==
    /\ impl \in MapBacked
    /\ ret.op = "Set"
    /\ ret.was = NilMap
    /\ ret.panic = ""
    /\ IsPresent(p[ret.field])

(***************************************************************************)
(* C19: a container that is not Present shows no payload: Get returns      *)
(* (zero value, false), MarshalJSON returns null (Null) or the zero        *)
(* value's encoding (Absent); in particular, after SetNull or Reset on a   *)
(* container that held Present(v), v not the zero value, neither returns   *)
(* v.  The representation holds no payload either: no true key in the map, *)
(* the zero value in the struct.                                           *)
(***************************************************************************)
C19_PayloadGoneWhenNotPresent ==
    /\ \A f \in FieldSet :
        ~IsPresent(p[f]) =>
            /\ Get(impl, typ, p[f]) = [v |-> ZeroValue(typ), ok |-> FALSE]
            /\ MarshalJSON(impl, typ, p[f]) =
                   IF IsNullState(p[f]) THEN [bytes |-> NullBytes, err |-> ""]
                   ELSE json_Marshal(ZeroValue(typ))
            /\ impl \in MapBacked => ~MapHas(p[f], TRUE)
            /\ impl = "Null" => p[f].value = ZeroValue(typ)
            /\ (ret.op = "Get" /\ ret.field = f) => (~ret.ok /\ ret.value = ZeroValue(typ))
            /\ (ret.op = "MarshalJSON" /\ ret.field = f) =>
                   ret.bytes \in {NullBytes, json_Marshal(ZeroValue(typ)).bytes}
    /\ (ret.op \in {"SetNull", "Reset"} /\ IsPresent(ret.was) /\ Payload(ret.was) # ZeroValue(typ)) =>
        /\ Get(impl, typ, p[ret.field]).v # Payload(ret.was)
        /\ MarshalJSON(impl, typ, p[ret.field]) # json_Marshal(Payload(ret.was))

\* SetUnspecified has run on a Null[T] struct that held a payload other than
\* the zero value.
C19_Witness ==
    /\ impl = "Null"
    /\ ret.op = "Reset"
    /\ ret.was.state = StateValid
    /\ ret.was.value # ZeroValue(typ)
    /\ p[ret.field].state = StateUnset

(***************************************************************************)
(* Equality of two containers, as require.Equal of the tests decides it:   *)
(* reflect.DeepEqual.  (Go has no == on maps.)  Floats compare by ==, so   *)
(* NaN is not equal to itself; pointers are equal when their pointees are; *)
(* two maps are equal when both are nil or both are not, they have the     *)
(* same length, and they are the same map object (same) or their keys and  *)
(* values agree; structs when their fields agree.                          *)
(***************************************************************************)
ValueDeepEqual(a, b) == a = b /\ ~a.nan

DeepEqual(I, a, b, same) ==
    IF I \in MapBacked
    THEN /\ a.isNil = b.isNil
         /\ MapLen(a) = MapLen(b)
         /\ \/ same
            \/ /\ DOMAIN a.kv = DOMAIN b.kv
               /\ \A k \in DOMAIN a.kv : ValueDeepEqual(a.kv[k], b.kv[k])
    ELSE /\ ValueDeepEqual(a.value, b.value)
         /\ a.state = b.state

\* Same state and, when Present, equal payloads.
SameStateAndPayload(a, b) ==
    /\ IsSet(impl, a) = IsSet(impl, b)
    /\ IsNull(impl, a) = IsNull(impl, b)
    /\ IsPresent(a) => ValueDeepEqual(Payload(a), Payload(b))

\* A null token has just been decoded into field ret.field.
DecodedNull ==
    /\ ret.op \in {"UnmarshalJSON", "json.Unmarshal:member"}
    /\ ret.field \in FieldSet
    /\ ret.data = NullBytes

(***************************************************************************)
(* C17 as stated: two containers are equal if and only if they are in the  *)
(* same state and, when Present, hold equal payloads; a container brought  *)
(* to Absent by Reset() / SetUnspecified() equals the default container    *)
(* and Zero() / New(); one brought to Null by SetNull() or by decoding     *)
(* null equals Null() / NewNull().                                         *)
(***************************************************************************)
C17_EqualIffSameState ==
    /\ \A f \in FieldSet : \A g \in FieldSet \ {f} :
        DeepEqual(impl, p[f], p[g], aliased) <=> SameStateAndPayload(p[f], p[g])
    /\ ret.op = "Reset" =>
        /\ DeepEqual(impl, p[ret.field], Default(impl, typ), FALSE)
        /\ DeepEqual(impl, p[ret.field], MakeAbsent(impl, typ), FALSE)
    /\ (ret.op = "SetNull" \/ DecodedNull) =>
        DeepEqual(impl, p[ret.field], MakeNull(impl, typ), FALSE)

(***************************************************************************)
(* C17, what holds: the statement holds of the struct type.  A map-backed  *)
(* Absent container is a nil map (the default value) or an empty map       *)
(* (Zero(), and after Reset()), and the two are not equal; otherwise       *)
(* equality is sameness of state and payload, but that two containers      *)
(* sharing one map are equal even when its payload, NaN, is not.           *)
(***************************************************************************)
C17_EqualIffSameRepresentation ==
    /\ \A f \in FieldSet : \A g \in FieldSet \ {f} :
        DeepEqual(impl, p[f], p[g], aliased) <=>
            \/ aliased
            \/ /\ SameStateAndPayload(p[f], p[g])
               /\ impl \in MapBacked => p[f].isNil = p[g].isNil
    /\ ret.op = "Reset" =>
        /\ DeepEqual(impl, p[ret.field], MakeAbsent(impl, typ), FALSE)
        /\ DeepEqual(impl, p[ret.field], Default(impl, typ), FALSE) <=> impl = "Null"
    /\ (ret.op = "SetNull" \/ DecodedNull) =>
        DeepEqual(impl, p[ret.field], MakeNull(impl, typ), FALSE)

\* Reset has run on one field of an Opt struct whose other field still
\* holds the default value: both are Absent, and they are not equal.
C17_Witness ==
    /\ impl = "Opt"
    /\ ret.op = "Reset"
    /\ \E f \in FieldSet :
        /\ f # ret.field
        /\ p[f] = Default(impl, typ)
        /\ SameStateAndPayload(p[f], p[ret.field])
        /\ ~DeepEqual(impl, p[f], p[ret.field], aliased)

(***************************************************************************)
(* C20: a container copied by value is independent of the copy.  After     *)
(* p.f = p.g, the two report the same; and a step of Set, SetNull, Reset   *)
(* or UnmarshalJSON on one field leaves what IsSet, IsNull, Get and        *)
(* MarshalJSON return for the other field as it was, whether or not the    *)
(* two share a map; the first such call that assigns ends the sharing, so  *)
(* this holds along every sequence of calls.  Only map-backed containers   *)
(* ever share a map, and those that do hold the same map.                  *)
(***************************************************************************)
MutationSteps == {"Set", "SetNull", "Reset", "UnmarshalJSON", "json.Unmarshal:member", "json.Unmarshal"}

C20_CopyIsIndependent ==
    /\ [](aliased => (impl \in MapBacked /\ \A f \in FieldSet : \A g \in FieldSet : p[f] = p[g]))
    /\ [](ret.op = "copy" =>
            \A g \in FieldSet :
                /\ Observed(p[g]) = Observed(p[ret.field])
                /\ MarshalJSON(impl, typ, p[g]) = MarshalJSON(impl, typ, p[ret.field]))
    /\ [][ (ret'.op \in MutationSteps /\ ret'.field \in FieldSet) =>
            /\ \A g \in FieldSet \ {ret'.field} :
                /\ Observed(p'[g]) = Observed(p[g])
                /\ MarshalJSON(impl, typ, p'[g]) = MarshalJSON(impl, typ, p[g])
            /\ (ret'.op \in {"Set", "SetNull", "Reset"} /\ ret'.panic = "") => ~aliased' ]_vars

\* Set has run on a field whose container shared its map, a Null one, with
\* the other field: the other field is still Null.
C20_Witness ==
    /\ impl \in MapBacked
    /\ ret.op = "Set"
    /\ ret.shared
    /\ Observed(ret.was) = ObservedNull
    /\ IsPresent(p[ret.field])
    /\ \A g \in FieldSet \ {ret.field} : p[g] = ret.was

(***************************************************************************)
(* Inspection.  IsNull, IsSet (IsSpecified), IsZero, Get, MustGet and      *)
(* MarshalJSON have value receivers and hold no assignment, no map write.  *)
(***************************************************************************)
InspectionOps == {"IsNull", "IsSet", "IsZero", "Get", "MustGet", "MarshalJSON"}

\* What a call record says the call returned.
ResultOf(call) ==
    [ok |-> call.ok, value |-> call.value, panic |-> call.panic,
     bytes |-> call.bytes, err |-> call.err]

NoResult == [ok |-> FALSE, value |-> NoValue, panic |-> "", bytes |-> <<>>, err |-> ""]

\* What the inspection operation op of the container type I returns on the
\* container t.
InspectAs(I, op, t) ==
    CASE op = "IsNull" -> [NoResult EXCEPT !.ok = IsNull(I, t)]
      [] op = "IsSet" -> [NoResult EXCEPT !.ok = IsSet(I, t)]
      [] op = "IsZero" -> [NoResult EXCEPT !.ok = Null_IsZero(t)]
      [] op = "Get" ->
            LET r == Get(I, typ, t) IN [NoResult EXCEPT !.value = r.v, !.ok = r.ok]
      [] op = "MustGet" ->
            LET r == MustGet(I, typ, t)
            IN [NoResult EXCEPT !.value = IF r.panic = "" THEN r.v ELSE NoValue,
                                !.panic = r.panic]
      [] op = "MarshalJSON" ->
            LET r == MarshalJSON(I, typ, t)
            IN [NoResult EXCEPT !.bytes = r.bytes, !.err = r.err]

Inspect(op, t) == InspectAs(impl, op, t)

Containers(I) ==
    {Default(I, typ), MakeAbsent(I, typ), MakeNull(I, typ)}
        \cup {MakePresent(I, w) : w \in GoValues(typ)}

\* A result with the text of its panic left out: a call returns or panics.
Outcome(res) == [res EXCEPT !.panic = IF @ = "" THEN "" ELSE "panic"]

\* The operations all three types have, under option.go's names.
SharedInspectionOps == {"IsNull", "IsSet", "Get", "MustGet", "MarshalJSON"}

\* What the inspection operations of type I return on t, one and all.
Results(I, t) == [op \in SharedInspectionOps |-> Outcome(InspectAs(I, op, t))]

\* The container t of the running program's type and the container u of
\* type J answer every inspection alike.
Alike(t, J, u) == Results(impl, t) = Results(J, u)

\* The mutation the call record names, run by type J on its container u.
Redo(J, call, u) ==
    CASE call.op = "Set" -> [t |-> Set(J, u, call.value), err |-> ""]
      [] call.op = "SetNull" -> [t |-> SetNull(J, typ, u), err |-> ""]
      [] call.op = "Reset" -> [t |-> Reset(J, typ, u), err |-> ""]
      [] call.op = "UnmarshalJSON" -> UnmarshalJSON(J, typ, u, call.data)

\* C22: the containers of each type stay within Containers, and each step
\* of the program keeps them alike with the containers of the two other
\* types: the default values and the results of Zero/New, From/NewFrom and
\* Null/NewNull are alike; a Set, SetNull, Reset/SetUnspecified or
\* UnmarshalJSON on alike containers returns the same error and leaves
\* alike containers; and on alike containers IsNull, IsSet/IsSpecified, Get,
\* MustGet (the value, or a panic) and MarshalJSON return the same.  By
\* induction on the sequence of operations the three types, driven alike,
\* return identical results.
C22_ImplementationsAgree ==
    /\ \A f \in FieldSet : p[f] \in Containers(impl)
    /\ \A J \in Impls \ {impl} :
        /\ ret.op = "var" => \A f \in FieldSet : Alike(p[f], J, Default(J, typ))
        /\ ret.op = "Zero" => Alike(p[ret.field], J, MakeAbsent(J, typ))
        /\ ret.op = "From" => Alike(p[ret.field], J, MakePresent(J, ret.value))
        /\ ret.op = "Null" => Alike(p[ret.field], J, MakeNull(J, typ))
        /\ ret.op \in {"Set", "SetNull", "Reset", "UnmarshalJSON"} =>
              \A u \in Containers(J) :
                  Alike(ret.was, J, u) =>
                      LET r == Redo(J, ret, u)
                      IN /\ ~Panicked(r.t)
                         /\ ret.panic = ""
                         /\ r.err = ret.err
                         /\ Alike(p[ret.field], J, r.t)
        /\ ret.op \in SharedInspectionOps =>
              \A u \in Containers(J) :
                  Alike(p[ret.field], J, u) =>
                      Outcome(InspectAs(J, ret.op, u)) = Outcome(ResultOf(ret))

\* MustGet has panicked on an Absent struct-backed container, and panics
\* on the nil map of the map-backed Opt too, with another text.
C22_Witness ==
    /\ impl = "Null"
    /\ ret.op = "MustGet"
    /\ ret.panic # ""
    /\ ~Null_IsSpecified(p[ret.field])
    /\ Alike(p[ret.field], "Opt", NilMap)
    /\ MustGet("Opt", typ, NilMap).panic \notin {"", ret.panic}

(***************************************************************************)
(* The typed constructors.                                                 *)
(***************************************************************************)
\* C23 (under FieldSpec): for every argument x, each of String, Int, Int64,
\* Bool, Float, Float32 and Time returns the container From(x) returns:
\* IsSet() is true, IsNull() is false and Get() returns (x, true), for the
\* zero value of the type as for any other; and the inspections called on
\* a field filled by a constructor return just that.
C23_HelpersAreFrom ==
    /\ ret.op \in {HelperName(T) : T \in HelperTypes} =>
        /\ ret.op = HelperName(typ)
        /\ p[ret.field] = From(ret.value)
        /\ Observed(p[ret.field]) = ObservedPresent(ret.value)
    /\ \A f \in FieldSet :
          p[f] # Default(impl, typ) => \E x \in GoValues(typ) : p[f] = From(x)
    /\ (ret.op \in {"IsSet", "IsNull", "Get", "MustGet"}
          /\ p[ret.field] # Default(impl, typ)) =>
        /\ ret.op = "IsSet" => ret.ok
        /\ ret.op = "IsNull" => ~ret.ok
        /\ ret.op = "Get" => ret.ok /\ From(ret.value) = p[ret.field]
        /\ ret.op = "MustGet" => ret.panic = "" /\ From(ret.value) = p[ret.field]

\* Bool(false) has been stored in one field and Get on it has returned
\* (false, true).
C23_Witness ==
    /\ typ = "bool"
    /\ ret.op = "Get"
    /\ ret.ok
    /\ ret.value = GoBool(FALSE)
    /\ p[ret.field] = param_Bool(GoBool(FALSE))

(***************************************************************************)
(* C24: in the struct-backed Null[T], IsZero() is true exactly when the    *)
(* state is StateUnset: in every reachable state IsZero() is the negation  *)
(* of IsSpecified(), so it is false for a Null container and for every     *)
(* Present one, Present of T's zero value included; and an IsZero call     *)
(* returns that.                                                           *)
(***************************************************************************)
C24_IsZeroIffUnset ==
    impl = "Null" =>
        /\ \A f \in FieldSet :
            /\ Null_IsZero(p[f]) = ~Null_IsSpecified(p[f])
            /\ Null_IsZero(p[f]) = (p[f].state = StateUnset)
            /\ Null_IsNull(p[f]) => ~Null_IsZero(p[f])
            /\ Null_Get(typ, p[f]).ok => ~Null_IsZero(p[f])
        /\ \A v \in GoValues(typ) : ~Null_IsZero(Null_NewFrom(v))
        /\ ~Null_IsZero(Null_NewNull(typ))
        /\ Null_IsZero(Null_New(typ))
        /\ ret.op = "IsZero" =>
            /\ ret.ok = ~Null_IsSpecified(p[ret.field])
            /\ ret.ok = (Observed(p[ret.field]) = ObservedAbsent)

\* IsZero has returned false on a container that is Present with T's zero
\* value.
C24_Witness ==
    /\ impl = "Null"
    /\ ret.op = "IsZero"
    /\ ~ret.ok
    /\ p[ret.field] = Null_NewFrom(ZeroValue(typ))

(***************************************************************************)
(* C25: in every reachable state, a call of json.Unmarshal in progress     *)
(* and the state after a failed UnmarshalJSON included, a struct-backed    *)
(* container whose state is not StateValid holds T's zero value in its     *)
(* value field, and a map-backed container that is Null is exactly the map *)
(* {false: zero value}.                                                    *)
(***************************************************************************)
C25_NoStalePayload ==
    \A f \in FieldSet :
        /\ impl = "Null" =>
            /\ p[f].state \in {StateUnset, StateNull, StateValid}
            /\ p[f].state # StateValid => p[f].value = ZeroValue(typ)
        /\ impl \in MapBacked =>
            (IsNull(impl, p[f]) => p[f] = MapLit(FALSE, ZeroValue(typ)))

\* SetNull has run on a struct that held a payload other than the zero
\* value.
C25_Witness ==
    /\ impl = "Null"
    /\ ret.op = "SetNull"
    /\ ret.was.state = StateValid
    /\ ret.was.value # ZeroValue(typ)
    /\ p[ret.field] = [value |-> ZeroValue(typ), state |-> StateNull]

(***************************************************************************)
(* C26: the map-backed types have two maps of no key, the nil map of a     *)
(* declared variable and the empty map that Zero()/New() return and that   *)
(* Reset()/SetUnspecified() install from every start.  Every inspection    *)
(* returns the same on both: IsSet false, IsNull false, Get (zero value,   *)
(* false), MustGet panics, MarshalJSON gives the zero value's encoding;    *)
(* json.Marshal omits an omitempty field that holds either and writes the  *)
(* zero value's encoding for a field without omitempty.                    *)
(***************************************************************************)
AbsentMaps == {NilMap, EmptyMap}

\* What an inspection returns on a container of no state.
AbsentResult(op) ==
    CASE op = "IsSet" -> NoResult
      [] op = "IsNull" -> NoResult
      [] op = "Get" -> [NoResult EXCEPT !.value = ZeroValue(typ)]
      [] op = "MustGet" -> [NoResult EXCEPT !.panic = "panic"]
      [] op = "MarshalJSON" ->
            [NoResult EXCEPT !.bytes = json_Marshal(ZeroValue(typ)).bytes,
                             !.err = json_Marshal(ZeroValue(typ)).err]

C26_AbsentMapsAlike ==
    impl \in MapBacked =>
        /\ Default(impl, typ) = NilMap
        /\ MakeAbsent(impl, typ) = EmptyMap
        /\ \A t0 \in Starts : Reset(impl, typ, t0) = EmptyMap
        /\ \A t \in AbsentMaps :
            /\ \A op \in SharedInspectionOps : Outcome(InspectAs(impl, op, t)) = AbsentResult(op)
            /\ isEmptyValue(impl, t)
        /\ \A f \in FieldSet : ~IsSet(impl, p[f]) => p[f] \in AbsentMaps
        /\ (ret.op \in SharedInspectionOps /\ p[ret.field] \in AbsentMaps) =>
              Outcome(ResultOf(ret)) = AbsentResult(ret.op)
        /\ Marshalled =>
              \A f \in FieldSet :
                  p[f] \in AbsentMaps =>
                      IF OmitEmpty(f) THEN ~HasKey(ret.object, f)
                      ELSE /\ HasKey(ret.object, f)
                           /\ Member(ret.object, f) = json_Marshal(ZeroValue(typ)).bytes

\* json.Marshal has encoded a struct whose field without omitempty holds the
\* nil map and whose omitempty field holds the empty map: the object has
\* the first key alone, with the zero value.
C26_Witness ==
    /\ impl \in MapBacked
    /\ Marshalled
    /\ p["required"] = NilMap
    /\ p["optional"] = EmptyMap
    /\ Len(ret.object) = 1
    /\ ret.object[1] = [key |-> "required", val |-> json_Marshal(ZeroValue(typ)).bytes]

(***************************************************************************)
(* Decoding again into a struct that holds states already.                 *)
(***************************************************************************)
\* The container a token leaves when it decodes: null gives Null, a value
\* gives Present of it.
TokenState(data) ==
    IF data = NullBytes THEN MakeNull(impl, typ)
    ELSE MakePresent(impl, json_Unmarshal(typ, data).v)

\* The member's value does not decode into its field.
Fails(m) ==
    /\ m.key \in FieldSet
    /\ m.val # NullBytes
    /\ json_Unmarshal(typ, m.val).err # ""

\* The members of object that json.Unmarshal decodes: those before the first
\* that fails.
Decoded(object) ==
    {i \in 1..Len(object) : \A j \in 1..i : ~Fails(object[j])}

\* The struct obj after json.Unmarshal of object, were each field decided by
\* the last decoded member with its key, and left alone when there is none.
LastWins(obj, object) ==
    [f \in FieldSet |->
        LET idx == {i \in Decoded(object) : object[i].key = f}
        IN IF idx = {} THEN obj[f]
           ELSE TokenState(object[CHOOSE i \in idx : \A j \in idx : j <= i].val)]

\* C27: an UnmarshalJSON call that succeeds, made directly or by
\* json.Unmarshal for a member, leaves the container its token decides
\* (null: Null; a value: Present of it) whatever the container held; a
\* direct call that fails leaves what it held.  And json.Unmarshal of any
\* object of up to two members (a key twice, two keys, a key the struct has
\* not, a value that fails) into a struct that earlier calls have filled
\* leaves each field as the last decoded member with its key decides, a
\* field without such a member as it was, fails exactly when a member
\* fails, and run a second time on the same input returns the same error
\* and leaves the same struct.
C27_LastTokenWins ==
    /\ (UnmarshalJSONCalled /\ ret.err = "" /\ ret.panic = "") =>
        /\ p[ret.field] = TokenState(ret.data)
        /\ IsNull(impl, p[ret.field]) = (ret.data = NullBytes)
        /\ \A t0 \in Containers(impl) :
              UnmarshalJSON(impl, typ, t0, ret.data) = [t |-> p[ret.field], err |-> ""]
    /\ (ret.op = "UnmarshalJSON" /\ ret.err # "") => p[ret.field] = ret.was
    /\ ret = Did("json.Unmarshal", "") =>
          \A object \in InputObjects :
              LET once == json_UnmarshalStruct(impl, typ, p, object)
                  twice == json_UnmarshalStruct(impl, typ, once.obj, object)
              IN /\ once.panic = ""
                 /\ once.obj = LastWins(p, object)
                 /\ (once.err = "") = (Decoded(object) = 1..Len(object))
                 /\ twice = once

\* A struct is decoded into again: its first field was Present before the
\* call and the input's null has made it Null, its second field was Null,
\* the input has had no key for it so far and it is Null still.
C27_Witness ==
    /\ dec.active
    /\ ret.op = "json.Unmarshal:member"
    /\ ret.field = "required"
    /\ ret.data = NullBytes
    /\ dec.keys = {"required"}
    /\ IsPresent(dec.before["required"])
    /\ p["required"] = MakeNull(impl, typ)
    /\ IsNull(impl, dec.before["optional"])
    /\ p["optional"] = dec.before["optional"]

(***************************************************************************)
(* C28: when UnmarshalJSON fails for a member, json.Unmarshal returns that *)
(* error at once and undoes nothing.  The step that fails changes no       *)
(* field: the failing container is as it was, a field that an earlier      *)
(* member of the input decoded keeps the state it was decoded to, and a    *)
(* field no earlier member named holds what it held before the call (a     *)
(* later member is never read).  The same on whole inputs of two members:  *)
(* a member that decodes followed by another field's member that fails     *)
(* leaves the first field decoded and the second as before; a member that  *)
(* fails followed by one that would decode leaves the struct as before.    *)
(***************************************************************************)
C28_NoRollbackOnError ==
    /\ [](dec.active => \A g \in FieldSet \ dec.invoked : p[g] = dec.before[g])
    /\ [][(dec.active /\ ~dec'.active /\ ret'.err # "") =>
              /\ ret'.op = "json.Unmarshal"
              /\ ret'.field \in FieldSet
              /\ p' = p
              /\ \A g \in FieldSet \ dec.invoked : p'[g] = dec.before[g]
              /\ ret'.changed = {g \in FieldSet : p'[g] # dec.before[g]}
              /\ ret'.changed \subseteq dec.invoked]_vars
    /\ [](ret = Did("json.Unmarshal", "") =>
            \A m1 \in InputMembers : \A m2 \in InputMembers :
                LET r == json_UnmarshalStruct(impl, typ, p, <<m1, m2>>)
                IN /\ (~Fails(m1) /\ Fails(m2) /\ m1.key \in FieldSet \ {m2.key}) =>
                        /\ r.err # ""
                        /\ r.obj[m1.key] = TokenState(m1.val)
                        /\ r.obj[m2.key] = p[m2.key]
                   /\ Fails(m1) => (r.err # "" /\ r.obj = p))

\* json.Unmarshal has failed at the member of the second field after it had
\* decoded the first field's member, which changed that field alone; the
\* first field holds the decoded state and the second the Null state it had.
C28_Witness ==
    /\ ret.op = "json.Unmarshal"
    /\ ret.err # ""
    /\ ret.field = "optional"
    /\ ret.changed = {"required"}
    /\ IsPresent(p["required"])
    /\ IsNull(impl, p["optional"])

(***************************************************************************)
(* A payload type whose zero value encodes as null: *int, whose zero value *)
(* is the nil pointer.                                                     *)
(***************************************************************************)
\* The containers that hold no payload other than nil.
NullEncoded ==
    {Default(impl, typ), MakeAbsent(impl, typ), MakeNull(impl, typ), MakePresent(impl, GoNilPtr)}

\* C29: for the payload type *int, MarshalJSON returns null for a Null
\* container, for an Absent one and for Present(nil) alike, and json.Marshal
\* writes null for such a field unless omitempty omits it; UnmarshalJSON of
\* null leaves Null from every container.  So the three states have one
\* wire form, and Present(nil), marshalled and unmarshalled, comes back Null
\* and not Present.
C29_NilPayloadWireForm ==
    typ = "*int" =>
        /\ json_Marshal(ZeroValue(typ)) = [bytes |-> NullBytes, err |-> ""]
        /\ \A t \in NullEncoded : MarshalJSON(impl, typ, t) = [bytes |-> NullBytes, err |-> ""]
        /\ \A t0 \in Containers(impl) :
              UnmarshalJSON(impl, typ, t0, NullBytes) = [t |-> MakeNull(impl, typ), err |-> ""]
        /\ LET sent == MarshalJSON(impl, typ, MakePresent(impl, GoNilPtr))
               back == UnmarshalJSON(impl, typ, Default(impl, typ), sent.bytes)
           IN /\ back.err = ""
              /\ Observed(back.t) = ObservedNull
              /\ Observed(back.t) # Observed(MakePresent(impl, GoNilPtr))
        /\ (ret.op = "MarshalJSON" /\ p[ret.field] \in NullEncoded) =>
              (ret.bytes = NullBytes /\ ret.err = "")
        /\ Marshalled =>
              \A f \in FieldSet :
                  (p[f] \in NullEncoded /\ HasKey(ret.object, f)) =>
                      Member(ret.object, f) = NullBytes
        /\ (UnmarshalJSONCalled /\ ret.data = NullBytes) =>
              (ret.err = "" /\ Observed(p[ret.field]) = ObservedNull)

\* MarshalJSON has returned null for a container that is Present with the
\* nil pointer, while the other field, decoded from null, is Null.
C29_Witness ==
    /\ typ = "*int"
    /\ ret.op = "MarshalJSON"
    /\ ret.bytes = NullBytes
    /\ Observed(p[ret.field]) = ObservedPresent(GoNilPtr)
    /\ \E g \in FieldSet \ {ret.field} : Observed(p[g]) = ObservedNull

(***************************************************************************)
(* ExampleNewFrom: p.N = null.NewFrom(123); fmt.Println(p.N.Get()), with   *)
(* the expected output "123 <nil>".  Println writes its operands in their  *)
(* default formats with a space between; the comparison with the expected  *)
(* output leaves the final newline out.                                    *)
(***************************************************************************)
fmt_Int(v) == Itoa(v.n)

fmt_Bool(b) == IF b THEN <<"t", "r", "u", "e">> ELSE <<"f", "a", "l", "s", "e">>

fmt_Println(v, ok) == fmt_Int(v) \o <<" ">> \o fmt_Bool(ok)

\* Get has returned on a struct-backed container that NewFrom built from
\* an int.
GotFromNewFrom ==
    /\ impl = "Null"
    /\ typ = "int"
    /\ ret.op = "Get"
    /\ p[ret.field] = Null_NewFrom(ret.value)

\* C30, as stated: printing the two results of Get() on NewFrom(v) gives v
\* followed by <nil>.
C30_GetPrintsNil ==
    GotFromNewFrom => fmt_Println(ret.value, ret.ok) = fmt_Int(ret.value) \o <<" ", "<", "n", "i", "l", ">">>

\* C30, as the code has it: Get() returns (v, true) on NewFrom(v), and the
\* two results print as v followed by true.
C30_GetPrintsTrue ==
    GotFromNewFrom =>
        /\ ret.ok
        /\ fmt_Println(ret.value, ret.ok) = fmt_Int(ret.value) \o <<" ", "t", "r", "u", "e">>

\* Get has returned on NewFrom(1).
C30_Witness ==
    /\ GotFromNewFrom
    /\ ret.value = GoInt(1)
    /\ fmt_Println(ret.value, ret.ok) = <<"1", " ", "t", "r", "u", "e">>
====
